---- MODULE Spec2Model ----
(***************************************************************************)
(* A model of wproxy (src/main.py): a FastAPI forwarding proxy with a      *)
(* GitHub blob->raw link rewriter, a TTL cache for small responses and a   *)
(* streaming path for the rest.                                            *)
(*                                                                         *)
(* Strings are sequences of one-character strings, so that stripping,      *)
(* percent-decoding, scheme parsing, the two regular expressions and the   *)
(* route patterns are computed character by character as the code does.    *)
(***************************************************************************)
EXTENDS Integers, Sequences, FiniteSets, TLC

(***************************************************************************)
(* Characters and words                                                    *)
(***************************************************************************)
LOWER == <<"a","b","c","d","e","f","g","h","i","j","k","l","m",
           "n","o","p","q","r","s","t","u","v","w","x","y","z">>
UPPER == <<"A","B","C","D","E","F","G","H","I","J","K","L","M",
           "N","O","P","Q","R","S","T","U","V","W","X","Y","Z">>
DIGITS == {"0","1","2","3","4","5","6","7","8","9"}

Range(s) == {s[i] : i \in DOMAIN s}
IsAlpha(c) == c \in Range(LOWER) \cup Range(UPPER)
\* str.lower() on one character
LowerChar(c) ==
    IF c \in Range(UPPER) THEN LOWER[CHOOSE i \in DOMAIN UPPER : UPPER[i] = c] ELSE c
LowerStr(s) == [i \in DOMAIN s |-> LowerChar(s[i])]

\* s[i:] and s[:i] of Python, 0-based i
Drop(s, n) == IF n >= Len(s) THEN <<>> ELSE SubSeq(s, n + 1, Len(s))
Take(s, n) == IF n >= Len(s) THEN s ELSE SubSeq(s, 1, n)
StartsWith(s, p) == Len(s) >= Len(p) /\ SubSeq(s, 1, Len(p)) = p
\* the same, ignoring case (re.I)
StartsWithI(s, p) == Len(s) >= Len(p) /\ LowerStr(SubSeq(s, 1, Len(p))) = LowerStr(p)
\* str.find(c) + 1: the 1-based index of the first c, 0 when there is none
Find(s, c) ==
    IF \E i \in DOMAIN s : s[i] = c
    THEN CHOOSE i \in DOMAIN s : s[i] = c /\ \A j \in 1..(i - 1) : s[j] # c
    ELSE 0
\* the 1-based index of the first character of s in the set cs, Len(s)+1 when none
FindAny(s, cs) ==
    IF \E i \in DOMAIN s : s[i] \in cs
    THEN CHOOSE i \in DOMAIN s : s[i] \in cs /\ \A j \in 1..(i - 1) : s[j] \notin cs
    ELSE Len(s) + 1

sHTTP   == <<"h","t","t","p">>
sHTTPS  == <<"h","t","t","p","s">>
sFTP    == <<"f","t","p">>
sCSS    == <<":","/","/">>
sWWW    == <<"w","w","w",".">>
sGITHUB == <<"g","i","t","h","u","b",".","c","o","m">>
sRAWHOST == <<"r","a","w",".","g","i","t","h","u","b","u","s","e","r",
              "c","o","n","t","e","n","t",".","c","o","m">>
sBLOB   == <<"b","l","o","b">>
sRAW    == <<"r","a","w">>
sSLASH  == <<"/">>
sPROXY  == <<"p","r","o","x","y",":">>

(***************************************************************************)
(* normalize_url_param                                                     *)
(***************************************************************************)
WHITESPACE == {" ", "\t", "\n", "\r"}

RECURSIVE LStrip(_)
LStrip(s) == IF s # <<>> /\ s[1] \in WHITESPACE THEN LStrip(Tail(s)) ELSE s
RECURSIVE RStrip(_)
RStrip(s) ==
    IF s # <<>> /\ s[Len(s)] \in WHITESPACE THEN RStrip(SubSeq(s, 1, Len(s) - 1)) ELSE s
\* str.strip()
Strip(s) == RStrip(LStrip(s))

\* the percent escapes the model's inputs use, as (two hex digits, character)
PctTable == { <<"3","A",":">>, <<"3","a",":">>, <<"2","F","/">>, <<"2","f","/">>,
              <<"2","0"," ">> }
\* urllib.parse.unquote: every %XY with two hex digits becomes the character,
\* anything else stays as it is
RECURSIVE Unquote(_)
Unquote(s) ==
    IF s = <<>> THEN <<>>
    ELSE IF s[1] = "%" /\ Len(s) >= 3 /\ \E e \in PctTable : e[1] = s[2] /\ e[2] = s[3]
         THEN LET e == CHOOSE e \in PctTable : e[1] = s[2] /\ e[2] = s[3]
              IN  <<e[3]>> \o Unquote(Drop(s, 3))
         ELSE <<s[1]>> \o Unquote(Tail(s))

normalize_url_param(raw) ==
    LET u == Unquote(Strip(raw))
    IN  IF StartsWith(u, sSLASH \o sHTTP \o sCSS) \/ StartsWith(u, sSLASH \o sHTTPS \o sCSS)
        THEN Drop(u, 1)
        ELSE u

(***************************************************************************)
(* allowed_scheme: urllib.parse.urlparse(url).scheme in ("http", "https")  *)
(***************************************************************************)
SchemeChars == Range(LOWER) \cup Range(UPPER) \cup DIGITS \cup {"+", "-", "."}
C0_OR_SPACE == {" ", "\t", "\n", "\r"}
UNSAFE_URL_BYTES == {"\t", "\r", "\n"}

RECURSIVE LStripC0(_)
LStripC0(s) == IF s # <<>> /\ s[1] \in C0_OR_SPACE THEN LStripC0(Tail(s)) ELSE s
RECURSIVE RemoveUnsafe(_)
RemoveUnsafe(s) ==
    IF s = <<>> THEN <<>>
    ELSE IF s[1] \in UNSAFE_URL_BYTES THEN RemoveUnsafe(Tail(s))
         ELSE <<s[1]>> \o RemoveUnsafe(Tail(s))

\* urlsplit's cleaning of its argument
UrlClean(url) == RemoveUnsafe(LStripC0(url))
\* does urlsplit find a scheme: a ':' not in first place, after a letter and
\* scheme characters only
HasScheme(c) ==
    LET i == Find(c, ":")
    IN  i > 1 /\ IsAlpha(c[1]) /\ \A j \in 1..(i - 1) : c[j] \in SchemeChars
\* urlparse(url).scheme: lower-cased, "" when there is none
UrlScheme(url) ==
    LET c == UrlClean(url)
    IN  IF HasScheme(c) THEN LowerStr(Take(c, Find(c, ":") - 1)) ELSE <<>>
\* what follows the scheme
UrlAfterScheme(url) ==
    LET c == UrlClean(url)
    IN  IF HasScheme(c) THEN Drop(c, Find(c, ":")) ELSE c
\* the netloc urlsplit cuts out after "//", up to the first of / ? #
UrlNetloc(url) ==
    LET rest == UrlAfterScheme(url)
    IN  IF StartsWith(rest, <<"/","/">>)
        THEN LET r2 == Drop(rest, 2) IN Take(r2, FindAny(r2, {"/", "?", "#"}) - 1)
        ELSE <<>>
\* urlsplit raises ValueError("Invalid IPv6 URL") on an unbalanced bracket in
\* the netloc, whatever the scheme
UrlparseRaises(url) ==
    LET n == UrlNetloc(url)
    IN  ("[" \in Range(n)) # ("]" \in Range(n))

\* "raise" when urlparse raises, else whether the scheme is http or https
allowed_scheme(url) ==
    IF UrlparseRaises(url) THEN "raise"
    ELSE IF UrlScheme(url) \in {sHTTP, sHTTPS} THEN "yes" ELSE "no"

(***************************************************************************)
(* github_to_raw                                                           *)
(***************************************************************************)
\* does p, ignoring case, stand in s right after the first n characters
StartsWithAtI(s, n, p) ==
    Len(s) >= n + Len(p) /\ LowerStr(SubSeq(s, n + 1, n + Len(p))) = LowerStr(p)
\* the 1-based index of the first c of s after the first n characters, 0 when none
FindAfter(s, n, c) ==
    IF \E i \in (n + 1)..Len(s) : s[i] = c
    THEN CHOOSE i \in (n + 1)..Len(s) : s[i] = c /\ \A j \in (n + 1)..(i - 1) : s[j] # c
    ELSE 0
\* ^https?:// , ignoring case: the number of characters it matches, -1 when
\* it does not match
GhSchemeEnd(url) ==
    IF StartsWithAtI(url, 0, sHTTPS \o sCSS) THEN 8
    ELSE IF StartsWithAtI(url, 0, sHTTP \o sCSS) THEN 7
    ELSE -1
\* ^https?://(?:www\.)?github\.com/ , ignoring case: the number of characters
\* it matches, -1 when it does not match
GhHostEnd(url) ==
    LET n == GhSchemeEnd(url)
    IN  IF n < 0 THEN -1
        ELSE IF StartsWithAtI(url, n, sWWW \o sGITHUB \o sSLASH) THEN n + 15
        ELSE IF StartsWithAtI(url, n, sGITHUB \o sSLASH) THEN n + 11
        ELSE -1
\* ([^/]+)/([^/]+)/<word>/(.+)$ after the host: the three groups, or <<>> when
\* the url does not match. '.' matches no newline, [^/] does; $ also matches
\* before a final newline.
GhGroups(url, word) ==
    LET h == GhHostEnd(url)
        \* the slash that ends the owner, the slash that ends the repo
        i == IF h < 0 THEN 0 ELSE FindAfter(url, h, "/")
        j == IF i = 0 THEN 0 ELSE FindAfter(url, i, "/")
        \* where the last group starts
        k == j + Len(word) + 2
        last == IF url[Len(url)] = "\n" THEN Len(url) - 1 ELSE Len(url)
    IN  IF /\ j > 0
           /\ i > h + 1
           /\ j > i + 1
           /\ StartsWithAtI(url, j, word \o sSLASH)
           /\ k <= last
           /\ \A x \in k..last : url[x] # "\n"
        THEN <<SubSeq(url, h + 1, i - 1), SubSeq(url, i + 1, j - 1), SubSeq(url, k, last)>>
        ELSE <<>>
gh_blob_regex(url) == GhGroups(url, sBLOB)
\* a second pattern that looks for /tree/
gh_tree_regex_tree(url) == GhGroups(url, <<"t","r","e","e">>)
gh_tree_regex(url) == GhGroups(url, sRAW)

\* the rewritten url left on github.com
RawUrlOfSameHost(g) == sHTTPS \o sCSS \o sGITHUB \o sSLASH \o g[1] \o sSLASH \o g[2] \o sSLASH \o g[3]
\* lines 69, 73
RawUrlOf(g) == sHTTPS \o sCSS \o sRAWHOST \o sSLASH \o g[1] \o sSLASH \o g[2] \o sSLASH \o g[3]

github_to_raw(url) ==
    LET m == gh_blob_regex(url)
        m2 == gh_tree_regex(url)
    IN  IF m # <<>> THEN RawUrlOf(m)
        ELSE IF m2 # <<>> THEN RawUrlOf(m2)
        ELSE url

(***************************************************************************)
(* Headers, upstream responses, pick_response_headers                      *)
(***************************************************************************)
\* A header mapping is a function from lower-case names (httpx.Headers looks
\* names up case-insensitively) to values; values are character sequences.
NoHeaders == [k \in {} |-> <<>>]
\* headers.get(k) is truthy: present and not empty
HeaderTruthy(h, k) == k \in DOMAIN h /\ h[k] # <<>>

WHITELIST == {"content-type", "content-length", "accept-ranges", "etag",
              "last-modified", "cache-control"}

\* every upstream header is passed on
PickAllHeaders(resp) == resp.headers
pick_response_headers(resp) ==
    [k \in {k \in WHITELIST : HeaderTruthy(resp.headers, k)} |-> resp.headers[k]]

\* int(v) of a header value: surrounding whitespace, an optional sign, decimal
\* digits with single underscores between them, as <<n>>; None for what int()
\* raises on
None == <<>>
DigitVal(c) == CHOOSE n \in 0..9 : <<"0","1","2","3","4","5","6","7","8","9">>[n + 1] = c
RECURSIVE DigitsVal(_)
DigitsVal(s) == IF s = <<>> THEN 0 ELSE DigitsVal(SubSeq(s, 1, Len(s) - 1)) * 10 + DigitVal(s[Len(s)])
ParseInt(v) ==
    LET t == Strip(v)
        signed == t # <<>> /\ t[1] \in {"+", "-"}
        d == IF signed THEN Tail(t) ELSE t
        n == DigitsVal(SelectSeq(d, LAMBDA c : c # "_"))
    IN  IF /\ d # <<>>
           /\ \A i \in DOMAIN d : d[i] \in DIGITS \cup {"_"}
           /\ d[1] # "_" /\ d[Len(d)] # "_"
           /\ \A i \in 1..(Len(d) - 1) : ~(d[i] = "_" /\ d[i + 1] = "_")
        THEN IF signed /\ t[1] = "-" THEN <<0 - n>> ELSE <<n>>
        ELSE None

\* the limit of line 143
CACHE_LIMIT == 1048576

\* a clen that takes a content-length int() cannot read for 0
DeclaredLengthLax(cacheEnabled, resp) ==
    IF cacheEnabled /\ HeaderTruthy(resp.headers, "content-length")
    THEN IF ParseInt(resp.headers["content-length"]) = None
         THEN <<0>> ELSE ParseInt(resp.headers["content-length"])
    ELSE None
\* lines 135-141: clen
DeclaredLength(cacheEnabled, resp) ==
    IF cacheEnabled /\ HeaderTruthy(resp.headers, "content-length")
    THEN ParseInt(resp.headers["content-length"])
    ELSE None

\* line 143 without its limit: any declared length is cached
CacheableAnyLength(cacheEnabled, resp) ==
    cacheEnabled /\ DeclaredLength(cacheEnabled, resp) # None
\* line 143 with a look at the status: only a 200 is cached
CacheableOkOnly(cacheEnabled, resp) ==
    /\ cacheEnabled
    /\ resp.status = 200
    /\ DeclaredLength(cacheEnabled, resp) # None
    /\ DeclaredLength(cacheEnabled, resp)[1] <= CACHE_LIMIT
\* line 143: the test that sends a response to the cache
Cacheable(cacheEnabled, resp) ==
    LET clen == DeclaredLength(cacheEnabled, resp)
    IN  cacheEnabled /\ clen # None /\ clen[1] <= CACHE_LIMIT

(***************************************************************************)
(* cachetools.TTLCache, as line 35 builds it                               *)
(* The cache is the sequence of its links in __links order (least recently *)
(* used first), each [key, value, expires].                                *)
(***************************************************************************)
Keys(c) == {c[i].key : i \in DOMAIN c}
Link(c, k) == c[CHOOSE i \in DOMAIN c : c[i].key = k]
Without(c, k) == SelectSeq(c, LAMBDA e : e.key # k)
\* __contains__ with the comparison turned round
CacheContainsReversed(c, k, t) == k \in Keys(c) /\ t > Link(c, k).expires
\* __contains__ that forgets the expiry
CacheContainsForever(c, k, t) == k \in Keys(c)
\* TTLCache.__contains__
CacheContains(c, k, t) == k \in Keys(c) /\ t < Link(c, k).expires
\* TTLCache.__getitem__: the link is moved to the end of __links; KeyError
\* when it has expired
CacheGetRaises(c, k, t) == ~(k \in Keys(c) /\ t < Link(c, k).expires)
CacheAfterGet(c, k) == IF k \in Keys(c) THEN Without(c, k) \o <<Link(c, k)>> ELSE c
\* TTLCache.expire
CacheExpire(c, t) == SelectSeq(c, LAMBDA e : t < e.expires)
\* Cache.__setitem__ raises ValueError("value too large") when maxsize < 1
CacheSetRaises(maxsize) == 1 > maxsize
\* a store that leaves the entry of a key that is present as it is
CacheAfterSetKeepFirst(c, k, v, t, ttl, maxsize) ==
    IF k \in Keys(CacheExpire(c, t)) THEN CacheExpire(c, t)
    ELSE CacheExpire(c, t) \o <<[key |-> k, value |-> v, expires |-> t + ttl]>>
\* TTLCache.__setitem__: expire, make room by popitem (the first link), store,
\* move the link to the end with expires = time + ttl
CacheAfterSet(c, k, v, t, ttl, maxsize) ==
    LET c1 == CacheExpire(c, t)
        c2 == IF k \in Keys(c1) \/ Len(c1) + 1 <= maxsize
              THEN c1
              ELSE Drop(c1, Len(c1) + 1 - maxsize)
    IN  Without(c2, k) \o <<[key |-> k, value |-> v, expires |-> t + ttl]>>

(***************************************************************************)
(* Bounds and inputs                                                       *)
(***************************************************************************)
\* the number of requests a behaviour holds at most
MaxReq == 3
\* the number of requests of the behaviours in which requests overlap freely
Concurrent == 2
\* the last tick of the cache's timer
MaxTime == 3
\* GHPROXY_CACHE_TTL and GHPROXY_CACHE_MAXSIZE as the behaviours are run with
TTL_SET == 2
MAXSIZE_SET == 2

Req == 1..MaxReq

sOR == <<"/","o","/","r","/">>
sBF == <<"b","/","f">>
\* https://github.com/o/r/blob/b/f
UrlBlob == sHTTPS \o sCSS \o sGITHUB \o sOR \o sBLOB \o sSLASH \o sBF
\* https://raw.githubusercontent.com/o/r/b/f
UrlRawHost == sHTTPS \o sCSS \o sRAWHOST \o sOR \o sBF
\* ftp://x
UrlFtp == sFTP \o sCSS \o <<"x">>
\* ftp://[
UrlFtpBracket == sFTP \o sCSS \o <<"[">>
\* the url path parameters requests come with; the second is what a path
\* like //https://raw... hands over
RawUrls == {UrlBlob, sSLASH \o UrlRawHost, UrlFtp, UrlFtpBracket}

sBYTES == <<"b","y","t","e","s","=","0","-","1">>
\* the inbound header sets requests come with
InboundHeaders == { NoHeaders, [k \in {"range", "cookie"} |-> IF k = "range" THEN sBYTES ELSE <<"c">>] }

s7 == <<"7">>
s1MiB == <<"1","0","4","8","5","7","6">>
s1MiBplus1 == <<"1","0","4","8","5","7","7">>
s7x == <<"7","x">>
H(names, cl) == [k \in names |-> IF k = "content-length" THEN cl ELSE <<"v">>]
\* what the upstream may answer: a short partial content, a not-found page
\* of exactly 1 MiB, a file of 1 MiB + 1, a refusal that declares no length,
\* a server error whose content-length is no number
UpstreamResponses == {
    [status |-> 206, headers |-> H({"content-type", "content-length", "set-cookie"}, s7),
     body |-> <<"a">>],
    [status |-> 404, headers |-> H({"content-length", "etag"}, s1MiB), body |-> <<"b">>],
    [status |-> 200, headers |-> H({"content-type", "content-length", "set-cookie"}, s1MiBplus1),
     body |-> <<"a", "b">>],
    [status |-> 403, headers |-> H({"content-type", "server"}, <<>>), body |-> <<"b">>],
    [status |-> 500, headers |-> H({"content-length"}, s7x), body |-> <<"c">>] }
\* the httpx.RequestError the fetch may raise
RequestErrors == {"ConnectError"}

NoResp == [status |-> 0, headers |-> NoHeaders, body |-> <<>>]
NoResult == [via |-> "none", status |-> 0, headers |-> NoHeaders, body |-> <<>>]
NoRequest == [handler |-> "none", path |-> <<>>, url |-> <<>>, headers |-> NoHeaders]

(***************************************************************************)
(* The routes, as lines 154-168 register them. The router tries the routes *)
(* in the order of registration and calls the first whose pattern matches  *)
(* the whole path; {url:path} matches any string, slashes included.        *)
(***************************************************************************)
sRAWPREFIX == sSLASH \o sRAW \o sSLASH
ROUTES == <<"index", "proxy_path", "raw_path">>
\* does the route's pattern match the path
RouteMatches(route, path) ==
    CASE route = "index" -> path = sSLASH
      [] route = "proxy_path" -> StartsWith(path, sSLASH)
      [] route = "raw_path" -> StartsWith(path, sRAWPREFIX)
\* the url parameter the route's pattern binds
RouteParam(route, path) ==
    CASE route = "index" -> <<>>
      [] route = "proxy_path" -> Drop(path, 1)
      [] route = "raw_path" -> Drop(path, Len(sRAWPREFIX))
\* the route the router picks: the first that matches
Dispatch(path) ==
    LET hits == {i \in DOMAIN ROUTES : RouteMatches(ROUTES[i], path)}
    IN  IF hits = {} THEN "not_found"
        ELSE ROUTES[CHOOSE i \in hits : \A j \in hits : i <= j]

\* the paths requests come with: /, /<url> and /raw/<url>
Paths == {sSLASH} \cup {sSLASH \o url : url \in RawUrls} \cup {sRAWPREFIX \o url : url \in RawUrls}

(***************************************************************************)
(* State                                                                   *)
(***************************************************************************)
VARIABLES
    config,      \* [CACHE_TTL, CACHE_MAXSIZE], read from the environment at import
    now,         \* the cache's timer (time.monotonic)
    cache,       \* the TTLCache (empty and unused when CACHE_TTL <= 0: cache is None)
    pc,          \* where each request's do_proxy stands
    request,     \* each request: the handler it reached, its path, url parameter, headers
    u,           \* do_proxy's u after line 110
    cache_key,   \* do_proxy's cache_key
    out_headers, \* the headers of the outbound GET
    resp,        \* the upstream response client.get returned
    result,      \* the response handed to the caller (its body grows while streaming)
    \* history, read by the properties only
    fetches,     \* outbound GETs each request issued
    bodyRead,    \* chunks of the upstream body read off the network for each request
    upstream,    \* what the upstream did for each request: "none", "ok", "failed"
    checkedAt,   \* the time each request's cache lookup ended
    storedAt,    \* the time each request stored into the cache (-1: it did not)
    lastStore,   \* for each key, the request that stored under it last
    lastDone,    \* the request that finished last
    pred,        \* for each request, lastDone when it began if nothing was in flight, else 0
    \* a helper called on its own, outside any request
    call         \* github_to_raw's argument and what it returned, call after call

codeVars == <<config, now, cache, pc, request, u, cache_key, out_headers, resp, result>>
histVars == <<fetches, bodyRead, upstream, checkedAt, storedAt, lastStore, lastDone, pred>>
vars == <<codeVars, histVars, call>>

\* a cache that is built whatever CACHE_TTL is
CacheEnabledAlways == TRUE
\* line 35: cache is not None
CacheEnabled == config.CACHE_TTL > 0

\* no helper has been called on its own
NoParts == [scheme |-> <<>>, host |-> <<>>, owner |-> <<>>, repo |-> <<>>,
            word |-> <<>>, rest |-> <<>>]
NoCall == [parts |-> NoParts, url |-> <<>>, out |-> <<>>]

\* the server after import: nothing cached, no request yet
InitServer(ttl, maxsize) ==
    /\ config = [CACHE_TTL |-> ttl, CACHE_MAXSIZE |-> maxsize]
    /\ now = 0
    /\ cache = <<>>
    /\ pc = [r \in Req |-> "idle"]
    /\ request = [r \in Req |-> NoRequest]
    /\ u = [r \in Req |-> <<>>]
    /\ cache_key = [r \in Req |-> <<>>]
    /\ out_headers = [r \in Req |-> NoHeaders]
    /\ resp = [r \in Req |-> NoResp]
    /\ result = [r \in Req |-> NoResult]
    /\ fetches = [r \in Req |-> 0]
    /\ bodyRead = [r \in Req |-> 0]
    /\ upstream = [r \in Req |-> "none"]
    /\ checkedAt = [r \in Req |-> -1]
    /\ storedAt = [r \in Req |-> -1]
    /\ lastStore = [k \in {} |-> 0]
    /\ lastDone = 0
    /\ pred = [r \in Req |-> 0]

InitWith(ttl, maxsize) == InitServer(ttl, maxsize) /\ call = NoCall

Init == InitWith(TTL_SET, MAXSIZE_SET)

(***************************************************************************)
(* do_proxy                                                                *)
(* The event loop runs one request at a time between two awaits; the only  *)
(* await of do_proxy is client.get (line 127), and a streamed body is      *)
(* pulled chunk by chunk after do_proxy has returned. The cache's timer is *)
(* read at line 113 and again at line 114, so the clock may advance        *)
(* between the two while no other request can run.                         *)
(***************************************************************************)
\* no request stands between lines 113 and 114
Quiet == \A q \in Req : pc[q] # "getitem"
\* request slots are taken in order
NextSlot(r) == pc[r] = "idle" /\ \A q \in Req : q < r => pc[q] # "idle"

\* a key made of the first characters of the url only
CacheKeyOfPrefix(url) == sPROXY \o Take(url, 8)
\* line 112
CacheKey(url) == sPROXY \o url

USER_AGENT == <<"g","h","p","r","o","x","y">>
\* outbound headers that take every inbound header along
OutHeadersAll(hdrs) ==
    [k \in DOMAIN hdrs \cup {"user-agent"} |-> IF k = "user-agent" THEN USER_AGENT ELSE hdrs[k]]
\* lines 118-124
OutHeaders(hdrs) ==
    [k \in ({"range"} \cap DOMAIN hdrs) \cup {"user-agent"} |->
        IF k = "range" THEN hdrs["range"] ELSE USER_AGENT]

\* line 107
Error400 == [via |-> "400", status |-> 400, headers |-> NoHeaders,
             body |-> <<"Only http/https supported">>]
\* a 502 that does not say what failed
Error502NoDetail(e) == [via |-> "502", status |-> 502, headers |-> NoHeaders,
                        body |-> <<"Upstream request failed">>]
\* line 129
Error502(e) == [via |-> "502", status |-> 502, headers |-> NoHeaders,
                body |-> <<"Upstream request failed: ", e>>]
\* an exception do_proxy does not catch: the server answers 500
Error500 == [via |-> "500", status |-> 500, headers |-> NoHeaders,
             body |-> <<"Internal Server Error">>]
\* line 115
CachedResponse(value) == [via |-> "cached", status |-> value.status,
                          headers |-> value.headers, body |-> value.content]
\* line 146
BufferedResponse(value) == [via |-> "stored", status |-> value.status,
                            headers |-> value.headers, body |-> value.content]
\* a streamed response that always says 200
StreamingResponseOk(status, picked) == [via |-> "stream", status |-> 200,
                                        headers |-> picked, body |-> <<>>]
\* line 149, before any chunk is pulled
StreamingResponse(status, picked) == [via |-> "stream", status |-> status,
                                      headers |-> picked, body |-> <<>>]
\* lines 131-132, 144-145: the tuple stored for a response
CacheValue(up) == [content |-> up.body, headers |-> pick_response_headers(up),
                   status |-> up.status]

\* the request ends with the response res
Finish(r, res) ==
    /\ result' = [result EXCEPT ![r] = res]
    /\ pc' = [pc EXCEPT ![r] = "done"]
    /\ lastDone' = r

\* lines 105-127: from the call to the first await, or to a return before it
do_proxy(r, handler, path, url, hdrs, convert_github) ==
    /\ NextSlot(r)
    /\ Quiet
    /\ request' = [request EXCEPT ![r] =
                     [handler |-> handler, path |-> path, url |-> url, headers |-> hdrs]]
    /\ pred' = [pred EXCEPT ![r] =
                  IF \A q \in Req : pc[q] \in {"idle", "done"} THEN lastDone ELSE 0]
    /\ \E n \in {normalize_url_param(url)} :
       \E ok \in {allowed_scheme(n)} :
       \E final \in {IF convert_github THEN github_to_raw(n) ELSE n} :
       \E key \in {CacheKey(final)} :
           IF ok # "yes"
           THEN /\ Finish(r, IF ok = "no" THEN Error400 ELSE Error500)
                /\ UNCHANGED <<u, cache_key, out_headers, fetches, checkedAt>>
           ELSE /\ u' = [u EXCEPT ![r] = final]
                /\ cache_key' = [cache_key EXCEPT ![r] = key]
                /\ IF CacheEnabled /\ CacheContains(cache, key, now)
                   THEN /\ pc' = [pc EXCEPT ![r] = "getitem"]
                        /\ UNCHANGED <<out_headers, fetches, checkedAt, result, lastDone>>
                   ELSE /\ out_headers' = [out_headers EXCEPT ![r] = OutHeaders(hdrs)]
                        /\ fetches' = [fetches EXCEPT ![r] = @ + 1]
                        /\ checkedAt' = [checkedAt EXCEPT ![r] = now]
                        /\ pc' = [pc EXCEPT ![r] = "fetching"]
                        /\ UNCHANGED <<result, lastDone>>
    /\ UNCHANGED <<call, config, now, cache, resp, bodyRead, upstream, storedAt, lastStore>>

\* lines 114-115: the read of the entry the membership test of line 113 found
CacheHit(r) ==
    /\ pc[r] = "getitem"
    /\ cache' = CacheAfterGet(cache, cache_key[r])
    /\ checkedAt' = [checkedAt EXCEPT ![r] = now]
    /\ IF CacheGetRaises(cache, cache_key[r], now)
       THEN Finish(r, Error500)
       ELSE Finish(r, CachedResponse(Link(cache, cache_key[r]).value))
    /\ UNCHANGED <<call, config, now, request, u, cache_key, out_headers, resp,
                   fetches, bodyRead, upstream, storedAt, lastStore, pred>>

\* lines 128-129: client.get raised a RequestError
FetchFailed(r, e) ==
    /\ pc[r] = "fetching"
    /\ Quiet
    /\ upstream' = [upstream EXCEPT ![r] = "failed"]
    /\ Finish(r, Error502(e))
    /\ UNCHANGED <<call, config, now, cache, request, u, cache_key, out_headers, resp,
                   fetches, bodyRead, checkedAt, storedAt, lastStore, pred>>

\* lines 127, 131-149: client.get returned the response up. client.get is not
\* a streaming call: it returns once the whole body has been read.
FetchReturned(r, up) ==
    /\ pc[r] = "fetching"
    /\ Quiet
    /\ resp' = [resp EXCEPT ![r] = up]
    /\ upstream' = [upstream EXCEPT ![r] = "ok"]
    /\ bodyRead' = [bodyRead EXCEPT ![r] = Len(up.body)]
    /\ IF Cacheable(CacheEnabled, up)
       THEN IF CacheSetRaises(config.CACHE_MAXSIZE)
            THEN /\ Finish(r, Error500)
                 /\ UNCHANGED <<cache, storedAt, lastStore>>
            ELSE /\ cache' = CacheAfterSet(cache, cache_key[r], CacheValue(up), now,
                                           config.CACHE_TTL, config.CACHE_MAXSIZE)
                 /\ storedAt' = [storedAt EXCEPT ![r] = now]
                 /\ lastStore' = [k \in DOMAIN lastStore \cup {cache_key[r]} |->
                                    IF k = cache_key[r] THEN r ELSE lastStore[k]]
                 /\ Finish(r, BufferedResponse(CacheValue(up)))
       ELSE /\ result' = [result EXCEPT ![r] =
                            StreamingResponse(up.status, pick_response_headers(up))]
            /\ pc' = [pc EXCEPT ![r] = "streaming"]
            /\ UNCHANGED <<cache, storedAt, lastStore, lastDone>>
    /\ UNCHANGED <<call, config, now, request, u, cache_key, out_headers,
                   fetches, checkedAt, pred>>

\* lines 96-99: the server pulls the next chunk of a streamed body; the
\* response is over when the generator is exhausted
stream_response(r) ==
    /\ pc[r] = "streaming"
    /\ Quiet
    /\ LET sent == Len(result[r].body)
           body == resp[r].body
           out == IF sent < Len(body) THEN Append(result[r].body, body[sent + 1])
                  ELSE result[r].body
       IN  /\ result' = [result EXCEPT ![r].body = out]
           /\ IF Len(out) = Len(body)
              THEN pc' = [pc EXCEPT ![r] = "done"] /\ lastDone' = r
              ELSE UNCHANGED <<pc, lastDone>>
    /\ UNCHANGED <<call, config, now, cache, request, u, cache_key, out_headers, resp,
                   fetches, bodyRead, upstream, checkedAt, storedAt, lastStore, pred>>

\* time passes
Tick ==
    /\ now < MaxTime
    /\ now' = now + 1
    /\ UNCHANGED <<call, config, cache, pc, request, u, cache_key, out_headers, resp, result, histVars>>

(***************************************************************************)
(* Handlers                                                                *)
(***************************************************************************)
Banner == [via |-> "index", status |-> 200, headers |-> NoHeaders,
           body |-> <<"a high performance web proxy website based on python3">>]
\* lines 154-158
index(r, path, hdrs) ==
    /\ NextSlot(r)
    /\ Quiet
    /\ request' = [request EXCEPT ![r] =
                     [handler |-> "index", path |-> path, url |-> <<>>, headers |-> hdrs]]
    /\ pred' = [pred EXCEPT ![r] =
                  IF \A q \in Req : pc[q] \in {"idle", "done"} THEN lastDone ELSE 0]
    /\ Finish(r, Banner)
    /\ UNCHANGED <<call, config, now, cache, u, cache_key, out_headers, resp,
                   fetches, bodyRead, upstream, checkedAt, storedAt, lastStore>>
\* lines 160-163
proxy_path(r, path, url, hdrs) == do_proxy(r, "proxy_path", path, url, hdrs, FALSE)
\* lines 165-168
raw_path(r, path, url, hdrs) == do_proxy(r, "raw_path", path, url, hdrs, TRUE)

\* what goes on after a handler was called
Step ==
    \/ \E r \in Req : CacheHit(r)
    \/ \E r \in Req, e \in RequestErrors : FetchFailed(r, e)
    \/ \E r \in Req, up \in UpstreamResponses : FetchReturned(r, up)
    \/ \E r \in Req : stream_response(r)
    \/ Tick

\* the handlers, called with any url parameter, the requests overlapping freely
Next ==
    \/ \E r \in 1..Concurrent, url \in RawUrls, hdrs \in InboundHeaders :
          proxy_path(r, <<>>, url, hdrs)
    \/ \E r \in 1..Concurrent, url \in RawUrls, hdrs \in InboundHeaders :
          raw_path(r, <<>>, url, hdrs)
    \/ \E r \in 1..Concurrent, hdrs \in InboundHeaders : index(r, <<>>, hdrs)
    \/ Step

Spec == Init /\ [][Next]_vars

(***************************************************************************)
(* The server                                                              *)
(***************************************************************************)
\* a GET of the path arrives and the router calls the handler it picks
HttpGet(r, path, hdrs) ==
    LET route == Dispatch(path)
        url == RouteParam(route, path)
    IN  CASE route = "index" -> index(r, path, hdrs)
          [] route = "proxy_path" -> proxy_path(r, path, url, hdrs)
          [] route = "raw_path" -> raw_path(r, path, url, hdrs)

\* the server: every request comes through the router
NextHttp ==
    \/ \E r \in 1..Concurrent, path \in Paths, hdrs \in InboundHeaders : HttpGet(r, path, hdrs)
    \/ Step

SpecHttp == Init /\ [][NextHttp]_vars

\* one client that sends its next request when the last one is over: up to
\* MaxReq requests for the same GitHub link, over either handler
NoneInFlight == \A q \in Req : pc[q] \in {"idle", "done"}
NextSerial ==
    \/ \E r \in Req : NoneInFlight /\ proxy_path(r, <<>>, UrlBlob, NoHeaders)
    \/ \E r \in Req : NoneInFlight /\ raw_path(r, <<>>, UrlBlob, NoHeaders)
    \/ Step

SpecSerial == Init /\ [][NextSerial]_vars

\* The event loop runs every coroutine that is ready, the server pulls a
\* streamed body to its end, and the upstream answers or fails (the client
\* has a timeout, line 34).
Fairness ==
    \A r \in Req :
        /\ WF_vars(CacheHit(r))
        /\ WF_vars((\E e \in RequestErrors : FetchFailed(r, e))
                      \/ (\E up \in UpstreamResponses : FetchReturned(r, up)))
        /\ WF_vars(stream_response(r))
SpecLive == Init /\ [][Next]_vars /\ Fairness

(***************************************************************************)
(* github_to_raw called on its own, on urls put together from parts:       *)
(* scheme://host/owner/repo/word/rest                                      *)
(***************************************************************************)
GhSchemes == {sHTTPS, sHTTP, <<"H","T","T","P">>, sFTP}
GhHosts == {sGITHUB, sWWW \o sGITHUB, <<"G","i","t","H","u","b",".","c","o","m">>, sRAWHOST}
GhOwners == {<<"o">>, <<>>}
GhRepos == {<<"r">>, <<>>}
GhWords == {sBLOB, sRAW, <<"B","l","o","b">>, <<"t","r","e","e">>}
GhRests == {sBF, <<>>, sRAW \o <<"/","x">>, <<"b","\n">>, <<"a","\n","b">>}
GhParts == [scheme : GhSchemes, host : GhHosts, owner : GhOwners, repo : GhRepos,
            word : GhWords, rest : GhRests]
UrlOf(p) == p.scheme \o sCSS \o p.host \o sSLASH \o p.owner \o sSLASH \o p.repo
            \o sSLASH \o p.word \o sSLASH \o p.rest

InitRewrite ==
    /\ InitServer(TTL_SET, MAXSIZE_SET)
    /\ call \in {[parts |-> p, url |-> UrlOf(p), out |-> <<>>] : p \in GhParts}
\* lines 64-74, called on the url first and then on what the call before returned
Rewrite ==
    /\ call # NoCall
    /\ Len(call.out) < 2
    /\ call' = [call EXCEPT !.out =
                   Append(@, github_to_raw(IF @ = <<>> THEN call.url ELSE @[Len(@)]))]
    /\ UNCHANGED <<codeVars, histVars>>
NextRewrite == Rewrite
SpecRewrite == InitRewrite /\ [][NextRewrite]_vars

\* GHPROXY_CACHE_TTL set to switch the cache off (0, a negative number) or on
TTLS == {-1, 0, TTL_SET}
InitTtl == \E ttl \in TTLS : InitWith(ttl, MAXSIZE_SET)
\* the handlers under a configuration that varies: overlapping requests for
\* a GitHub link and for an ftp url, over either handler
NextConfig ==
    \/ \E r \in 1..Concurrent, url \in {UrlBlob, UrlFtp} : proxy_path(r, <<>>, url, NoHeaders)
    \/ \E r \in 1..Concurrent, url \in {UrlBlob, UrlFtp} : raw_path(r, <<>>, url, NoHeaders)
    \/ Step
SpecTtl == InitTtl /\ [][NextConfig]_vars

\* GHPROXY_CACHE_MAXSIZE set to no room, room for one entry, room for more
MAXSIZES == {0, 1, MAXSIZE_SET}
InitMaxsize == \E maxsize \in MAXSIZES : InitWith(TTL_SET, maxsize)
SpecMaxsize == InitMaxsize /\ [][NextConfig]_vars

(***************************************************************************)
(* Properties                                                              *)
(***************************************************************************)
Proxied(r) == pc[r] # "idle" /\ request[r].handler \in {"proxy_path", "raw_path"}
\* the normalized target of a request, and the scheme urlsplit cuts off it
Target(r) == normalize_url_param(request[r].url)
TargetScheme(r) == UrlScheme(Target(r))
\* the length a response declares, None when it declares none that int() reads
Declared(up) ==
    IF HeaderTruthy(up.headers, "content-length")
    THEN ParseInt(up.headers["content-length"]) ELSE None
DeclaredSmall(up) == Declared(up) # None /\ Declared(up)[1] <= 1048576
DeclaredLarge(up) == Declared(up) # None /\ Declared(up)[1] > 1048576
\* the tuple a complete upstream response makes
TupleOf(up) ==
    [content |-> up.body,
     headers |-> [k \in {k \in DOMAIN up.headers : up.headers[k] # <<>>} \cap
                         {"content-type", "content-length", "accept-ranges", "etag",
                          "last-modified", "cache-control"} |-> up.headers[k]],
     status |-> up.status]
SameResponse(a, b) == a.status = b.status /\ a.headers = b.headers /\ a.body = b.body

\* C1: every request whose normalized target has a scheme other than http
\* and https is answered 400, issues no outbound fetch, and neither reads an
\* entry of the cache nor writes one.
C1_BadSchemeIs400 ==
    \A r \in Req :
        (Proxied(r) /\ TargetScheme(r) \notin {sHTTP, sHTTPS})
            => /\ pc[r] = "done"
               /\ result[r].status = 400
               /\ fetches[r] = 0
               /\ storedAt[r] = -1
               /\ checkedAt[r] = -1

\* C2: the router hands every path that begins with /raw/ to raw_path, with
\* what follows /raw/ as the url, and so with GitHub rewriting enabled.
C2_RawRouteSelected ==
    \A r \in Req :
        (pc[r] # "idle" /\ StartsWith(request[r].path, sRAWPREFIX))
            => /\ request[r].handler = "raw_path"
               /\ request[r].url = Drop(request[r].path, 5)

C3_Successive(r1, r2) ==
    /\ r1 # r2
    /\ pred[r2] = r1
    /\ upstream[r1] = "ok"
    /\ DeclaredSmall(resp[r1])
    /\ Proxied(r2)
    /\ u[r2] = u[r1]
    /\ checkedAt[r2] >= 0
    /\ checkedAt[r2] < storedAt[r1] + config.CACHE_TTL
\* C3: when a request follows, with nothing in between, a request for the
\* same target whose response declared a content-length <= 1 MiB, and looks
\* the cache up within the TTL of that response's store, it issues no
\* outbound fetch and is served from the cache with the body, status and
\* headers of the first response.
C3_SecondServedFromCache ==
    \A r1, r2 \in Req :
        C3_Successive(r1, r2)
            => /\ fetches[r2] = 0
               /\ pc[r2] = "done"
               /\ result[r2].via = "cached"
               /\ SameResponse(result[r2], result[r1])
C3_Witness ==
    \E r1, r2 \in Req :
        /\ C3_Successive(r1, r2)
        /\ result[r2].via = "cached"
        /\ request[r1].handler # request[r2].handler
        /\ checkedAt[r2] > storedAt[r1]

\* C4: every entry of the cache was stored from an upstream response that
\* arrived and declared a content-length <= 1,048,576; a response that
\* declares more never stores and goes out on the streaming path.
C4_OnlySmallCached ==
    /\ \A i \in DOMAIN cache :
          /\ cache[i].key \in DOMAIN lastStore
          /\ upstream[lastStore[cache[i].key]] = "ok"
          /\ DeclaredSmall(resp[lastStore[cache[i].key]])
    /\ \A r \in Req :
          (upstream[r] = "ok" /\ DeclaredLarge(resp[r]))
              => /\ storedAt[r] = -1
                 /\ result[r].via = "stream"
                 /\ \A i \in DOMAIN cache : cache[i].key \in DOMAIN lastStore
                                             /\ lastStore[cache[i].key] # r
C4_Witness ==
    \E r, q \in Req :
        /\ upstream[r] = "ok" /\ DeclaredLarge(resp[r]) /\ pc[r] = "done"
        /\ upstream[q] = "ok" /\ Declared(resp[q]) = <<1048576>>
        /\ cache_key[q] = cache_key[r]
        /\ \E i \in DOMAIN cache : cache[i].key = cache_key[q]

C5_ServedWithinTtl ==
    \A r \in Req :
        result[r].via = "cached"
            => \E q \in Req \ {r} :
                  /\ storedAt[q] >= 0
                  /\ cache_key[q] = cache_key[r]
                  /\ storedAt[q] <= checkedAt[r]
                  /\ checkedAt[r] < storedAt[q] + config.CACHE_TTL
                  /\ result[r].body = resp[q].body
C5_Stores(key) == {q \in Req : storedAt[q] >= 0 /\ cache_key[q] = key}
C5_ExpiredRefetched ==
    \A r \in Req :
        ( /\ pc[r] = "idle"
          /\ pc'[r] # "idle"
          /\ u'[r] # <<>>
          /\ C5_Stores(cache_key'[r]) # {}
          /\ \A q \in C5_Stores(cache_key'[r]) : now >= storedAt[q] + config.CACHE_TTL )
            => pc'[r] = "fetching" /\ fetches'[r] = 1
\* C5: an entry is served only less than the TTL after a request inserted
\* it, however often it was served in between; and a request that arrives
\* for a key that was stored, when the TTL of every store under it has run
\* out, goes to the upstream.
C5_ExpiryFromInsertion == []C5_ServedWithinTtl /\ [][C5_ExpiredRefetched]_vars
\* stored, served from the cache, then fetched again once the TTL had run out
C5_Witness ==
    \E a, b, c \in Req :
        /\ storedAt[a] >= 0
        /\ result[b].via = "cached" /\ cache_key[b] = cache_key[a]
        /\ checkedAt[b] > storedAt[a]
        /\ cache_key[c] = cache_key[a] /\ fetches[c] = 1
        /\ checkedAt[c] = storedAt[a] + config.CACHE_TTL
        /\ checkedAt[c] < checkedAt[b] + config.CACHE_TTL

C6_FailureIs502 ==
    \A r \in Req :
        (upstream[r] # "failed" /\ upstream'[r] = "failed")
            => /\ cache' = cache
               /\ pc'[r] = "done"
               /\ result'[r].status = 502
               /\ \E e \in RequestErrors : e \in Range(result'[r].body)
\* C6: when the fetch fails the request ends with status 502 and a body
\* that holds the failure's description, and the cache is left as it was.
C6_UpstreamFailure == [][C6_FailureIs502]_vars
C6_Witness ==
    \E r \in Req :
        /\ upstream[r] = "failed"
        /\ cache # <<>>
        /\ \A i \in DOMAIN cache : cache[i].key # cache_key[r]

C7_Allowed == {"content-type", "content-length", "accept-ranges", "etag",
               "last-modified", "cache-control"}
\* C7: the headers of every proxied response, served live (buffered or
\* streamed) or from the cache, and of every cache entry, are among the six
\* whitelisted names.
C7_HeadersWhitelisted ==
    /\ \A r \in Req :
          result[r].via \in {"cached", "stored", "stream"}
              => DOMAIN result[r].headers \subseteq C7_Allowed
    /\ \A i \in DOMAIN cache : DOMAIN cache[i].value.headers \subseteq C7_Allowed
C7_Witness ==
    \E a, b, c \in Req :
        /\ result[a].via = "stored" /\ "set-cookie" \in DOMAIN resp[a].headers
        /\ result[b].via = "cached" /\ result[b].headers = result[a].headers
        /\ result[c].via = "stream" /\ "set-cookie" \in DOMAIN resp[c].headers
        /\ result[c].headers # NoHeaders

\* C8: when a streamed response is handed to the caller, the upstream body
\* has not been read in full.
C8_StreamIsLazy ==
    \A r \in Req :
        (pc[r] = "streaming" /\ result[r].body = <<>> /\ Len(resp[r].body) > 1)
            => bodyRead[r] < Len(resp[r].body)

\* C9: every entry of the cache is the complete (body, headers, status)
\* tuple of the one upstream response of the request that stored under its
\* key last, and every response served from the cache is the complete tuple
\* of one request's upstream response.
C9_NoTornEntry ==
    /\ \A i \in DOMAIN cache :
          /\ cache[i].key \in DOMAIN lastStore
          /\ upstream[lastStore[cache[i].key]] = "ok"
          /\ cache[i].value = TupleOf(resp[lastStore[cache[i].key]])
    /\ \A i, j \in DOMAIN cache : cache[i].key = cache[j].key => i = j
    /\ \A r \in Req :
          result[r].via = "cached"
              => \E q \in Req \ {r} :
                    /\ storedAt[q] >= 0
                    /\ cache_key[q] = cache_key[r]
                    /\ CachedResponse(TupleOf(resp[q])) = result[r]
\* two requests missed on the same key, both fetched, both stored
C9_Witness ==
    \E a, b \in Req :
        /\ a # b
        /\ cache_key[a] = cache_key[b]
        /\ fetches[a] = 1 /\ fetches[b] = 1
        /\ storedAt[a] >= 0 /\ storedAt[b] >= 0
        /\ resp[a] # resp[b]
        /\ lastStore[cache_key[a]] = b
        /\ \E i \in DOMAIN cache : cache[i].key = cache_key[a] /\ cache[i].value = TupleOf(resp[b])

C10_Resolved(r) == Proxied(r) /\ u[r] # <<>>
\* C10: two requests use the same cache key exactly when they resolve to the
\* same final url, whatever handler they came through and whatever headers
\* they carry; and an entry stored under a key is the one a later request
\* for the same final url reads.
C10_KeyIsFinalUrl ==
    /\ \A a, b \in Req :
          (C10_Resolved(a) /\ C10_Resolved(b))
              => ((u[a] = u[b]) <=> (cache_key[a] = cache_key[b]))
    /\ \A b \in Req :
          result[b].via = "cached"
              => \E a \in Req \ {b} :
                    /\ storedAt[a] >= 0
                    /\ u[a] = u[b]
                    /\ result[b].body = resp[a].body
    /\ \A i \in DOMAIN cache : \E a \in Req : storedAt[a] >= 0 /\ cache[i].key = sPROXY \o u[a]
C10_Witness ==
    \E a, b \in Req :
        /\ C10_Resolved(a) /\ C10_Resolved(b)
        /\ request[a].handler # request[b].handler
        /\ request[a].url # request[b].url
        /\ request[a].headers # request[b].headers
        /\ u[a] = u[b]
        /\ storedAt[a] >= 0
        /\ result[b].via = "cached"
\* C11: when CACHE_TTL <= 0 the cache stays empty, no request is served from
\* the cache or stores into it, every request with an http(s) target issues
\* its own outbound fetch, and every response that arrives is streamed.
C11_CachingDisabled ==
    config.CACHE_TTL <= 0
        => /\ cache = <<>>
           /\ \A r \in Req :
                 /\ result[r].via \notin {"cached", "stored"}
                 /\ storedAt[r] = -1
                 /\ (Proxied(r) /\ allowed_scheme(Target(r)) = "yes") => fetches[r] = 1
                 /\ upstream[r] = "ok"
                       => result[r].via = "stream" /\ pc[r] \in {"streaming", "done"}
\* the cache is off, and a request repeats one whose small response had arrived
C11_Witness ==
    \E a, b \in Req :
        /\ config.CACHE_TTL <= 0
        /\ pred[b] = a
        /\ u[a] = u[b]
        /\ upstream[a] = "ok" /\ DeclaredSmall(resp[a])
        /\ upstream[b] = "ok"
        /\ fetches[a] = 1 /\ fetches[b] = 1
        /\ result[b].via = "stream"
\* a response that line 143 sends to the cache has just arrived for r
C12_Storing(r) ==
    /\ pc[r] = "fetching"
    /\ upstream'[r] = "ok"
    /\ Cacheable(CacheEnabled, resp'[r])
C12_SizeBounded == Len(cache) <= config.CACHE_MAXSIZE
C12_StoreSucceeds ==
    \A r \in Req :
        C12_Storing(r)
            => /\ Len(cache') <= config.CACHE_MAXSIZE
               /\ cache_key[r] \in Keys(cache')
               /\ result'[r].via = "stored"
               /\ (Len(cache) = config.CACHE_MAXSIZE /\ cache_key[r] \notin Keys(cache))
                     => \E k \in Keys(cache) : k \notin Keys(cache')
\* C12: the cache never holds more entries than CACHE_MAXSIZE, and a store
\* into a full cache drops an entry that was there, leaves the new entry in
\* the cache and answers the request with the buffered response.
C12_BoundedAndStoreSucceeds == []C12_SizeBounded /\ [][C12_StoreSucceeds]_vars
\* the url is http(s)://[www.]github.com/OWNER/REPO/blob/REST or .../raw/REST,
\* whatever the case of its letters
C13_Shape(p) ==
    /\ LowerStr(p.scheme) \in {sHTTP, sHTTPS}
    /\ LowerStr(p.host) \in {sGITHUB, sWWW \o sGITHUB}
    /\ p.owner # <<>> /\ p.repo # <<>> /\ p.rest # <<>>
    /\ LowerStr(p.word) \in {sBLOB, sRAW}
C13_Expected(p) ==
    IF C13_Shape(p)
    THEN sHTTPS \o sCSS \o sRAWHOST \o sSLASH \o p.owner \o sSLASH \o p.repo \o sSLASH \o p.rest
    ELSE UrlOf(p)
\* C13 as stated: every url of the shape is mapped to
\* https://raw.githubusercontent.com/OWNER/REPO/REST and every other url is
\* returned unchanged, whatever REST holds.
C13_MapsEveryRest == call.out # <<>> => call.out[1] = C13_Expected(call.parts)
\* C13: when REST holds no line break, every url of the shape is mapped to
\* https://raw.githubusercontent.com/OWNER/REPO/REST and every other url is
\* returned unchanged.
C13_MapsToRaw ==
    (call.out # <<>> /\ "\n" \notin Range(call.parts.rest))
        => call.out[1] = C13_Expected(call.parts)
\* http://www.github.com/o/r/Blob/raw/x went to .../o/r/raw/x
C13_Witness ==
    /\ call.out # <<>>
    /\ C13_Shape(call.parts)
    /\ call.parts.scheme = sHTTP
    /\ call.parts.host = sWWW \o sGITHUB
    /\ call.parts.word \notin {sBLOB, sRAW}
    /\ call.parts.rest = sRAW \o <<"/","x">>
    /\ call.out[1] = sHTTPS \o sCSS \o sRAWHOST \o sOR \o sRAW \o <<"/","x">>

\* C14: github_to_raw of what github_to_raw returned is that same url, and
\* a url that begins with https://raw.githubusercontent.com/ is returned
\* unchanged.
C14_Idempotent ==
    /\ Len(call.out) = 2 => call.out[2] = call.out[1]
    /\ (call.out # <<>> /\ StartsWith(call.url, sHTTPS \o sCSS \o sRAWHOST \o sSLASH))
          => call.out[1] = call.url
\* a url that was rewritten to .../o/r/raw/x, then called again
C14_Witness ==
    /\ Len(call.out) = 2
    /\ call.out[1] # call.url
    /\ call.parts.rest = sRAW \o <<"/","x">>
C15_Decision ==
    \A r \in Req :
        (pc[r] = "fetching" /\ upstream'[r] = "ok")
            => IF /\ config.CACHE_TTL > 0
                  /\ Declared(resp'[r]) # None
                  /\ Declared(resp'[r])[1] <= 1048576
               THEN /\ pc'[r] = "done"
                    /\ result'[r].via = "stored"
                    /\ result'[r].body = resp'[r].body
                    /\ cache_key[r] \in Keys(cache')
                    /\ Link(cache', cache_key[r]).value.content = resp'[r].body
               ELSE /\ pc'[r] = "streaming"
                    /\ result'[r].via = "stream"
                    /\ cache' = cache
C16_Edge(from, to, via) ==
    \/ from = "idle" /\ to \in {"getitem", "fetching"}
    \/ from = "idle" /\ to = "done" /\ via = "400"
    \/ from = "getitem" /\ to = "done" /\ via = "cached"
    \/ from = "fetching" /\ to = "done" /\ via \in {"502", "stored"}
    \/ from = "fetching" /\ to = "streaming" /\ via = "stream"
    \/ from = "streaming" /\ to = "done" /\ via = "stream"
C16_Order ==
    \A r \in Req :
        /\ (pc'[r] # pc[r] /\ request'[r].handler \in {"proxy_path", "raw_path"})
              => /\ C16_Edge(pc[r], pc'[r], result'[r].via)
                 /\ u'[r] # <<>>
                       => u'[r] = IF request'[r].handler = "raw_path"
                                  THEN github_to_raw(normalize_url_param(request'[r].url))
                                  ELSE normalize_url_param(request'[r].url)
        /\ result[r].via # "none" => result'[r].via = result[r].via
        /\ pc[r] = "done" => pc'[r] = "done" /\ result'[r] = result[r]
\* C16: every request goes from normalizing (and rewriting, on the raw
\* handler only) to the cache check, from there to the cache hit or the
\* fetch, from the fetch to the store or the stream, ends with one of 400,
\* 502, the cached, the buffered or the streamed response, handed over once,
\* and every request that has begun ends.
C16_Lifecycle ==
    /\ [][C16_Order]_vars
    /\ \A r \in Req : (pc[r] # "idle") ~> (pc[r] = "done")
\* C17: a request whose upstream answered, whatever the status, is given the
\* buffered or the streamed response with exactly the upstream's status.
C17_StatusPassedThrough ==
    \A r \in Req :
        upstream[r] = "ok"
            => /\ result[r].via \in {"stored", "stream"}
               /\ result[r].status = resp[r].status
\* a 404 went out buffered, a 403 or a 500 of the target went out streamed
C17_Witness ==
    \E a, b \in Req :
        /\ upstream[a] = "ok" /\ resp[a].status = 404 /\ result[a].via = "stored"
        /\ result[a].status = 404
        /\ upstream[b] = "ok" /\ resp[b].status \in {403, 500} /\ result[b].via = "stream"
        /\ result[b].status = resp[b].status /\ pc[b] = "done"
\* C18: the outbound GET of every request carries a range header exactly
\* when the inbound request has one, with the same value, always carries a
\* user-agent, and carries nothing else of the inbound headers.
C18_OutboundHeaders ==
    \A r \in Req :
        fetches[r] = 1
            => /\ ("range" \in DOMAIN out_headers[r]) <=> ("range" \in DOMAIN request[r].headers)
               /\ "range" \in DOMAIN out_headers[r]
                     => out_headers[r]["range"] = request[r].headers["range"]
               /\ "user-agent" \in DOMAIN out_headers[r]
               /\ DOMAIN out_headers[r] \subseteq {"range", "user-agent"}
\* one fetch for a request with a range and a cookie, one for a request with
\* no header at all
C18_Witness ==
    \E a, b \in Req :
        /\ fetches[a] = 1 /\ DOMAIN request[a].headers = {"range", "cookie"}
        /\ out_headers[a]["range"] = sBYTES
        /\ fetches[b] = 1 /\ request[b].headers = NoHeaders
        /\ DOMAIN out_headers[b] = {"user-agent"}
\* C19: a response that arrived is stored exactly when it declares a
\* content-length <= 1 MiB, whatever its status and whatever Range the request
\* carried; and a request that follows for the same final url within the TTL
\* is given the stored body and status without a fetch, whatever Range it
\* carries itself.
C19_StatusAndRangeIgnored ==
    /\ \A r \in Req :
          upstream[r] = "ok" => ((storedAt[r] >= 0) <=> DeclaredSmall(resp[r]))
    /\ \A a, b \in Req :
          ( /\ a # b /\ pred[b] = a
            /\ storedAt[a] >= 0
            /\ Proxied(b) /\ u[b] = u[a]
            /\ checkedAt[b] >= 0
            /\ checkedAt[b] < storedAt[a] + config.CACHE_TTL )
              => /\ fetches[b] = 0
                 /\ result[b].via = "cached"
                 /\ result[b].status = resp[a].status
                 /\ result[b].body = resp[a].body
\* a 206 fetched with a forwarded Range was stored and then served to a
\* request without a Range
C19_Witness ==
    \E a, b \in Req :
        /\ pred[b] = a
        /\ "range" \in DOMAIN out_headers[a]
        /\ resp[a].status = 206 /\ storedAt[a] >= 0
        /\ request[b].headers = NoHeaders
        /\ fetches[b] = 0
        /\ result[b].via = "cached" /\ result[b].status = 206
C20_ReadAfterTest ==
    \A r \in Req :
        (pc[r] = "getitem" /\ pc'[r] # "getitem")
            => /\ pc'[r] = "done"
               /\ result'[r].via = "cached"
               /\ result'[r].status # 500
\* C20: whenever the membership test of the cache check found the key, the
\* read that follows returns the entry and the request ends as a cache hit,
\* also when the entry's TTL runs out between the two; no request ends in an
\* internal error of the lookup.
C20_LookupNeverFails == [][C20_ReadAfterTest]_vars
====
